---- MODULE Spec2Model ----
(***************************************************************************)
(* Model of src/math/unimath.py: the Uniswap V3 conversion, liquidity and  *)
(* amount functions, and the module-level script that provides liquidity   *)
(* and simulates four swap steps.                                          *)
(*                                                                         *)
(* Scaling.  The script works with 2^96-scaled integers of about 100 bits  *)
(* and with IEEE doubles (53-bit significand).  The model keeps the same   *)
(* arithmetic at a smaller scale: q96 = 2^FracBits, and a float is a       *)
(* binary floating-point number with a MantBits-bit significand, rounded   *)
(* to nearest, ties to even, exactly like a double.  As in the script, the *)
(* integers in play are wider than the significand, so int -> float        *)
(* conversions and the results of "/" are rounded.  The exponent range of  *)
(* a double is never approached and is not modelled.                       *)
(***************************************************************************)
EXTENDS Integers, FiniteSets, Sequences, TLC

VARIABLES
    pc,            \* position of the script: which section runs next
    err,           \* "none", or the exception that ended the script
    price_low, price_cur, price_upp,      \* lines 246-248
    sqrtp_low, sqrtp_cur, sqrtp_upp,      \* lines 254-256
    amount_eth, amount_usdc,              \* lines 259-260
    liq0, liq1, liq,                      \* lines 264, 268, 273
    amount_in, price_diff, price_next, amount_out,   \* swap sections
    amount_req,    \* the input a swap section starts from (lines 288, 322,
                   \* 352, 379), before amount_in is overwritten
    fn, arg_x, arg_a, arg_b, ret          \* a direct call of one function

vars == <<pc, err, price_low, price_cur, price_upp, sqrtp_low, sqrtp_cur,
          sqrtp_upp, amount_eth, amount_usdc, liq0, liq1, liq, amount_in,
          price_diff, price_next, amount_out, amount_req, fn, arg_x, arg_a,
          arg_b, ret>>

script_vars == <<pc, err, price_low, price_cur, price_upp, sqrtp_low,
                 sqrtp_cur, sqrtp_upp, amount_eth, amount_usdc, liq0, liq1,
                 liq, amount_in, price_diff, price_next, amount_out,
                 amount_req>>

call_vars == <<fn, arg_x, arg_a, arg_b, ret>>

(***************************************************************************)
(* Bounds of the model.                                                    *)
(***************************************************************************)
FracBits == 3        \* fractional bits of a sqrt price (96 in the script)
MantBits == 3        \* significand bits of a float (53 for a double)
MaxPrice == 4        \* prices are drawn from 1..MaxPrice
MaxAmount == 4       \* deposited amounts are drawn from 1..MaxAmount
MaxAmountIn == 11    \* swap inputs are drawn from 1..MaxAmountIn
MaxDepositPrice == 5 \* prices of the provision-only specification
MaxDeposit == 12     \* deposits of the provision-only specification
MaxArg == 20         \* first argument of a direct call, 0..MaxArg
MaxSqrtP == 12       \* sqrt-price arguments of a direct call, 0..MaxSqrtP
TickMargin == 30     \* ticks are drawn this far around 0 and the limits

(***************************************************************************)
(* Program constants.                                                      *)
(***************************************************************************)
min_tick == -887272
max_tick == 887272
q96 == 2^FracBits

(***************************************************************************)
(* Python numbers.  A value is a record [k, m, e]:                         *)
(*   k = "int"    the integer m (e = 0);                                   *)
(*   k = "float"  the float m * 2^e, with m = 0 or                         *)
(*                2^(MantBits-1) <= |m| < 2^MantBits;                      *)
(*   any other k  the exception of that name, raised instead of a value.   *)
(***************************************************************************)
Abs(n) == IF n < 0 THEN -n ELSE n

Sgn(n) == IF n < 0 THEN -1 ELSE 1

PyInt(n) == [k |-> "int", m |-> n, e |-> 0]

PyFloat(m, e) == [k |-> "float", m |-> m, e |-> e]

Raise(name) == [k |-> name, m |-> 0, e |-> 0]

IsInt(x) == x.k = "int"

IsFloat(x) == x.k = "float"

IsNum(x) == x.k \in {"int", "float"}

IsError(x) == ~IsNum(x)

\* The float nearest to s * (n / d) * 2^k, for n >= 0, d > 0, s in {1, -1}:
\* the quotient is scaled until it has MantBits bits, then rounded half-even.
RECURSIVE RoundRat(_, _, _, _)
RoundRat(s, n, d, k) ==
    IF n = 0 THEN PyFloat(0, 0)
    ELSE IF n >= d * 2^MantBits THEN RoundRat(s, n, 2 * d, k + 1)
    ELSE IF n < d * 2^(MantBits - 1) THEN RoundRat(s, 2 * n, d, k - 1)
    ELSE LET q == n \div d
             r == n % d
             up == (2 * r > d) \/ (2 * r = d /\ q % 2 = 1)
             m == IF up THEN q + 1 ELSE q
         IN  IF m = 2^MantBits
             THEN PyFloat(s * 2^(MantBits - 1), k + 1)
             ELSE PyFloat(s * m, k)

\* int -> float, as Python converts an int operand of a float operation.
ToFloat(x) == IF IsInt(x) THEN RoundRat(Sgn(x.m), Abs(x.m), 1, 0) ELSE x

\* Number of bits of n >= 0.
RECURSIVE BitLen(_)
BitLen(n) == IF n = 0 THEN 0 ELSE 1 + BitLen(n \div 2)

\* Exact comparison of two numbers, x < y (Python compares an int with a
\* float exactly).  Values are m * 2^e; positive values are first compared by
\* the position of their leading bit, so no shift exceeds a mantissa width.
LessPos(x, y) ==
    LET bx == BitLen(x.m) + x.e
        by == BitLen(y.m) + y.e
    IN  IF bx # by THEN bx < by
        ELSE IF x.e >= y.e THEN x.m * 2^(x.e - y.e) < y.m
        ELSE x.m < y.m * 2^(y.e - x.e)

Neg(x) == [x EXCEPT !.m = -x.m]

Less(x, y) ==
    IF x.m <= 0 /\ y.m > 0 THEN TRUE
    ELSE IF x.m < 0 /\ y.m = 0 THEN TRUE
    ELSE IF x.m >= 0 /\ y.m <= 0 THEN FALSE
    ELSE IF x.m < 0 THEN LessPos(Neg(y), Neg(x))
    ELSE LessPos(x, y)

\* float + float, rounded.  An addend below a quarter of the other's unit in
\* the last place does not change it.
FloatAdd(x, y) ==
    IF x.m = 0 THEN y
    ELSE IF y.m = 0 THEN x
    ELSE IF x.e - y.e > MantBits + 2 THEN x
    ELSE IF y.e - x.e > MantBits + 2 THEN y
    ELSE LET lo == IF x.e < y.e THEN x.e ELSE y.e
             sum == x.m * 2^(x.e - lo) + y.m * 2^(y.e - lo)
         IN  RoundRat(Sgn(sum), Abs(sum), 1, lo)

\* x + y and x - y: exact on two ints, otherwise on the operands as floats.
PyAdd(x, y) ==
    IF IsError(x) THEN x
    ELSE IF IsError(y) THEN y
    ELSE IF IsInt(x) /\ IsInt(y) THEN PyInt(x.m + y.m)
    ELSE FloatAdd(ToFloat(x), ToFloat(y))

PySub(x, y) ==
    IF IsError(x) THEN x
    ELSE IF IsError(y) THEN y
    ELSE IF IsInt(x) /\ IsInt(y) THEN PyInt(x.m - y.m)
    ELSE FloatAdd(ToFloat(x), Neg(ToFloat(y)))

\* x * y: exact on two ints, otherwise the rounded product of the floats.
PyMul(x, y) ==
    IF IsError(x) THEN x
    ELSE IF IsError(y) THEN y
    ELSE IF IsInt(x) /\ IsInt(y) THEN PyInt(x.m * y.m)
    ELSE LET fx == ToFloat(x)
             fy == ToFloat(y)
         IN  RoundRat(Sgn(fx.m) * Sgn(fy.m), Abs(fx.m) * Abs(fy.m), 1,
                      fx.e + fy.e)

\* x / y (true division): always a float; int / int is the correctly rounded
\* quotient, otherwise the operands are converted first.  Raises on y = 0.
PyTrueDiv(x, y) ==
    IF IsError(x) THEN x
    ELSE IF IsError(y) THEN y
    ELSE IF y.m = 0 THEN Raise("ZeroDivisionError")
    ELSE IF IsInt(x) /\ IsInt(y)
         THEN RoundRat(Sgn(x.m) * Sgn(y.m), Abs(x.m), Abs(y.m), 0)
    ELSE LET fx == ToFloat(x)
             fy == ToFloat(y)
         IN  RoundRat(Sgn(fx.m) * Sgn(fy.m), Abs(fx.m), Abs(fy.m),
                      fx.e - fy.e)

\* floor(a / b) on integers, b # 0.
IntFloorDiv(a, b) == IF b > 0 THEN a \div b ELSE (-a) \div (-b)

\* floor of a float, as a float (exact).
FloatFloor(x) ==
    IF x.e >= 0 \/ x.m = 0 THEN x
    ELSE IF -x.e > MantBits
         THEN IF x.m > 0 THEN PyFloat(0, 0) ELSE RoundRat(-1, 1, 1, 0)
    ELSE LET f == x.m \div 2^(-x.e)
         IN  RoundRat(Sgn(f), Abs(f), 1, 0)

\* x - floor(x) > 0.5, exactly.
FracAboveHalf(x) ==
    IF x.e >= 0 \/ x.m = 0 THEN FALSE
    ELSE IF -x.e > MantBits + 1 THEN x.m < 0
    ELSE 2 * (x.m % 2^(-x.e)) > 2^(-x.e)

\* fmod(x, y) for floats, y # 0: exact, with the sign of x.
FloatFmod(x, y) ==
    LET a == [x EXCEPT !.m = Abs(x.m)]
        b == [y EXCEPT !.m = Abs(y.m)]
    IN  IF a.m = 0 \/ LessPos(a, b) THEN x
        ELSE LET lo == IF a.e < b.e THEN a.e ELSE b.e
                 r == (a.m * 2^(a.e - lo)) % (b.m * 2^(b.e - lo))
             IN  RoundRat(Sgn(x.m), r, 1, lo)

\* float // float as CPython computes it (float_divmod): the quotient of
\* (x - fmod(x, y)) by y, corrected for the sign of the remainder, floored,
\* and moved up by one if it lies more than a half above its floor.
FloatFloorDiv(x, y) ==
    LET mod == FloatFmod(x, y)
        div0 == PyTrueDiv(FloatAdd(x, Neg(mod)), y)
        adjust == mod.m # 0 /\ ((y.m < 0) # (mod.m < 0))
        div == IF adjust THEN FloatAdd(div0, RoundRat(-1, 1, 1, 0)) ELSE div0
        fl == FloatFloor(div)
    IN  IF div.m = 0 THEN PyFloat(0, 0)
        ELSE IF FracAboveHalf(div) THEN FloatAdd(fl, RoundRat(1, 1, 1, 0))
        ELSE fl

\* x // y: integer floor division on two ints, float floor division otherwise.
PyFloorDiv(x, y) ==
    IF IsError(x) THEN x
    ELSE IF IsError(y) THEN y
    ELSE IF y.m = 0 THEN Raise("ZeroDivisionError")
    ELSE IF IsInt(x) /\ IsInt(y) THEN PyInt(IntFloorDiv(x.m, y.m))
    ELSE FloatFloorDiv(ToFloat(x), ToFloat(y))

\* int(x): truncation toward zero.
PyTrunc(x) ==
    IF IsError(x) \/ IsInt(x) THEN x
    ELSE IF x.e >= 0 THEN PyInt(x.m * 2^(x.e))
    ELSE IF -x.e >= MantBits THEN PyInt(0)
    ELSE PyInt(Sgn(x.m) * (Abs(x.m) \div 2^(-x.e)))

\* min(x, y): the first argument unless the second is smaller.
PyMin(x, y) ==
    IF IsError(x) THEN x
    ELSE IF IsError(y) THEN y
    ELSE IF Less(y, x) THEN y ELSE x

\* math.sqrt(p) for an int p >= 0: the float nearest to the square root.
\* s is the number of fractional bits needed for a MantBits-bit result.
RECURSIVE ISqrt(_, _)
ISqrt(n, r) == IF (r + 1) * (r + 1) > n THEN r ELSE ISqrt(n, r + 1)

RECURSIVE SqrtScaled(_, _)
SqrtScaled(p, s) ==
    IF p * 4^s >= 4^MantBits THEN SqrtScaled(p, s - 1)
    ELSE IF p * 4^s < 4^(MantBits - 1) THEN SqrtScaled(p, s + 1)
    ELSE LET n == p * 4^s
             r == ISqrt(n, 0)
         IN  IF n > r * r + r THEN RoundRat(1, r + 1, 1, -s)
             ELSE RoundRat(1, r, 1, -s)

PySqrt(p) == IF p = 0 THEN PyFloat(0, 0) ELSE SqrtScaled(p, 0)

(***************************************************************************)
(* Conversion functions (lines 35-110).                                    *)
(***************************************************************************)
\* price_to_tick(p) = math.floor(math.log(p, 1.0001)) is only printed by the
\* script; what the script depends on is whether it raises.  math.log raises
\* ValueError for an argument that is not positive.  x is a float.
price_to_tick_raises(x) == x.m <= 0

\* price_to_sqrtp(p) = int(math.sqrt(p) * q96), p an int >= 0.
price_to_sqrtp(p) == PyTrunc(PyMul(PySqrt(p), PyInt(q96)))

\* 1.0001 ** (t / 2).  The square-root price doubles every
\* ln 2 / (ln 1.0001 / 2) = 13863.6 ticks; the power is taken exactly at the
\* multiples of TicksPerDoubling and linearly in between, then rounded to a
\* float.  No tick is refused.
TicksPerDoubling == 13864

PowHalfTick(t) ==
    LET k == t \div TicksPerDoubling
        r == t - k * TicksPerDoubling
    IN  RoundRat(1, TicksPerDoubling + r, TicksPerDoubling, k)

\* tick_to_sqrtp(t) = int((1.0001 ** (t / 2)) * q96).  An integer result too
\* wide to write out is kept as m * 2^e.
tick_to_sqrtp(t) ==
    LET f == PyMul(PowHalfTick(t), PyInt(q96))
    IN  IF f.e >= 0 THEN [k |-> "int", m |-> f.m, e |-> f.e] ELSE PyTrunc(f)

(***************************************************************************)
(* Liquidity and amount functions (lines 117-234).  Arguments and results  *)
(* are Python numbers; a result may be an exception.                       *)
(***************************************************************************)
\* "if pa > pb: pa, pb = pb, pa"
Lower(pa, pb) == IF Less(pb, pa) THEN pb ELSE pa

Upper(pa, pb) == IF Less(pb, pa) THEN pa ELSE pb

\* return (amount * (pa * pb) / q96) / (pb - pa)
liquidity0(amount, pa, pb) ==
    LET a == Lower(pa, pb)
        b == Upper(pa, pb)
    IN  PyTrueDiv(PyTrueDiv(PyMul(amount, PyMul(a, b)), PyInt(q96)),
                  PySub(b, a))

\* liquidity1 returning 0.0 for a zero-width range instead of raising.
liquidity1_zero_width(amount, pa, pb) ==
    IF ~Less(pa, pb) /\ ~Less(pb, pa) THEN PyFloat(0, 0)
    ELSE PyTrueDiv(PyMul(amount, PyInt(q96)),
                   PySub(Upper(pa, pb), Lower(pa, pb)))

\* return amount * q96 / (pb - pa)
liquidity1(amount, pa, pb) ==
    LET a == Lower(pa, pb)
        b == Upper(pa, pb)
    IN  PyTrueDiv(PyMul(amount, PyInt(q96)), PySub(b, a))

\* calc_amount0 without "if pa > pb: pa, pb = pb, pa".
calc_amount0_unordered(l, pa, pb) ==
    PyTrunc(PyTrueDiv(PyTrueDiv(PyMul(PyMul(l, PyInt(q96)), PySub(pb, pa)),
                                pb), pa))

\* return int(liq * q96 * (pb - pa) / pb / pa)
calc_amount0(l, pa, pb) ==
    LET a == Lower(pa, pb)
        b == Upper(pa, pb)
    IN  PyTrunc(PyTrueDiv(PyTrueDiv(PyMul(PyMul(l, PyInt(q96)), PySub(b, a)),
                                    b), a))

\* calc_amount1 without "if pa > pb: pa, pb = pb, pa".
calc_amount1_unordered(l, pa, pb) ==
    PyTrunc(PyTrueDiv(PyMul(l, PySub(pb, pa)), PyInt(q96)))

\* return int(liq * (pb - pa) / q96)
calc_amount1(l, pa, pb) ==
    LET a == Lower(pa, pb)
        b == Upper(pa, pb)
    IN  PyTrunc(PyTrueDiv(PyMul(l, PySub(b, a)), PyInt(q96)))

(***************************************************************************)
(* The script (lines 241-393).  It runs top to bottom: liquidity           *)
(* provision, then four swap sections, each starting from sqrtp_cur and    *)
(* liq.  An exception ends it.  The numbers the script fixes (the three    *)
(* prices, the two deposits, the swap inputs) are inputs of the model.     *)
(***************************************************************************)
None == [k |-> "None", m |-> 0, e |-> 0]

\* lines 254-273.  liquidity0 and liquidity1 raise on a zero-width range;
\* what was assigned before the exception stays assigned.
Provision ==
    LET lo == price_to_sqrtp(price_low)
        cu == price_to_sqrtp(price_cur)
        up == price_to_sqrtp(price_upp)
        l0 == liquidity0(PyInt(amount_eth), cu, up)
        l1 == liquidity1(PyInt(amount_usdc), cu, lo)
        base == [err |-> "none", sqrtp_low |-> lo.m, sqrtp_cur |-> cu.m,
                 sqrtp_upp |-> up.m, liq0 |-> liq0, liq1 |-> liq1,
                 liq |-> liq]
    IN  IF IsError(l0) THEN [base EXCEPT !.err = l0.k]
        ELSE IF IsError(l1) THEN [base EXCEPT !.err = l1.k, !.liq0 = l0]
        ELSE [base EXCEPT !.liq0 = l0, !.liq1 = l1,
                          !.liq = PyTrunc(PyMin(l0, l1)).m]

ProvideLiquidity ==
    /\ pc = "provide"
    /\ \E r \in {Provision} :
          /\ sqrtp_low' = r.sqrtp_low
          /\ sqrtp_cur' = r.sqrtp_cur
          /\ sqrtp_upp' = r.sqrtp_upp
          /\ liq0' = r.liq0
          /\ liq1' = r.liq1
          /\ liq' = r.liq
          /\ err' = r.err
          /\ pc' = IF r.err = "none" THEN "swap1" ELSE "crashed"
    /\ UNCHANGED <<price_low, price_cur, price_upp, amount_eth, amount_usdc,
                   amount_in, price_diff, price_next, amount_out, amount_req>>
    /\ UNCHANGED call_vars

\* The values a swap section leaves in its variables, and the exception that
\* ended it, if any.  s holds the values assigned so far.
\* The tail of every swap section: the prints of the new price, which raise
\* when it is zero (lines 299-301), then the two amounts (lines 305-306 with
\* in1 = TRUE: token1 in, token0 out; lines 337-338 otherwise).
SwapAmounts(s, in1) ==
    LET ratio == PyTrueDiv(PyInt(s.price_next), PyInt(q96))
        shown == PyMul(ratio, ratio)
        a0 == calc_amount0(PyInt(liq), PyInt(s.price_next), PyInt(sqrtp_cur))
        a1 == calc_amount1(PyInt(liq), PyInt(s.price_next), PyInt(sqrtp_cur))
        ain == IF in1 THEN a1 ELSE a0
        aout == IF in1 THEN a0 ELSE a1
    IN  IF price_to_tick_raises(shown) THEN [s EXCEPT !.err = "ValueError"]
        ELSE IF IsError(ain) THEN [s EXCEPT !.err = ain.k]
        ELSE IF IsError(aout) THEN [s EXCEPT !.err = aout.k, !.amount_in = ain]
        ELSE [s EXCEPT !.amount_in = ain, !.amount_out = aout.m]

SectionStart(a) ==
    [err |-> "none", amount_in |-> a, price_diff |-> price_diff,
     price_next |-> price_next, amount_out |-> amount_out]

\* Selling token1 for token0 (lines 288-306 and 352-371): a is the int input.
\*   price_diff = (amount_in * q96) // liq
\*   price_next = sqrtp_cur + price_diff
SellToken1(a) ==
    LET d == PyFloorDiv(PyMul(a, PyInt(q96)), PyInt(liq))
    IN  IF IsError(d) THEN [SectionStart(a) EXCEPT !.err = d.k]
        ELSE SwapAmounts([SectionStart(a) EXCEPT !.price_diff = d.m,
                              !.price_next = sqrtp_cur + d.m], TRUE)

\* Selling token0 for token1 (lines 322-338 and 379-390): a is the float
\* input (0.01337 * eth in the script).
\*   price_next = int((liq * q96 * sqrtp_cur) //
\*                    (liq * q96 + amount_in * sqrtp_cur))
SellToken0(a) ==
    LET lq == PyMul(PyInt(liq), PyInt(q96))
        n == PyTrunc(PyFloorDiv(PyMul(lq, PyInt(sqrtp_cur)),
                                PyAdd(lq, PyMul(a, PyInt(sqrtp_cur)))))
    IN  IF IsError(n) THEN [SectionStart(a) EXCEPT !.err = n.k]
        ELSE SwapAmounts([SectionStart(a) EXCEPT !.price_next = n.m], FALSE)

\* A swap section that also takes the price move out of the liquidity.
SwapSection_updates_liq(a, r, next_pc) ==
    /\ amount_req' = a
    /\ amount_in' = r.amount_in
    /\ price_diff' = r.price_diff
    /\ price_next' = r.price_next
    /\ amount_out' = r.amount_out
    /\ err' = r.err
    /\ pc' = IF r.err = "none" THEN next_pc ELSE "crashed"
    /\ liq' = liq + r.amount_out
    /\ UNCHANGED <<price_low, price_cur, price_upp, sqrtp_low, sqrtp_cur,
                   sqrtp_upp, amount_eth, amount_usdc, liq0, liq1>>
    /\ UNCHANGED call_vars

\* A swap section as a step of the script: only the section's own variables
\* are assigned.
SwapSection(a, r, next_pc) ==
    /\ amount_req' = a
    /\ amount_in' = r.amount_in
    /\ price_diff' = r.price_diff
    /\ price_next' = r.price_next
    /\ amount_out' = r.amount_out
    /\ err' = r.err
    /\ pc' = IF r.err = "none" THEN next_pc ELSE "crashed"
    /\ UNCHANGED <<price_low, price_cur, price_upp, sqrtp_low, sqrtp_cur,
                   sqrtp_upp, amount_eth, amount_usdc, liq0, liq1, liq>>
    /\ UNCHANGED call_vars

IntInputs == {PyInt(a) : a \in 1..MaxAmountIn}

FloatInputs == {ToFloat(PyInt(a)) : a \in 1..MaxAmountIn}

\* lines 288-309
SwapUsdcForEth ==
    /\ pc = "swap1"
    /\ \E a \in IntInputs : \E r \in {SellToken1(a)} :
          SwapSection(a, r, "swap2")

\* lines 322-341
SwapEthForUsdc ==
    /\ pc = "swap2"
    /\ \E a \in FloatInputs : \E r \in {SellToken0(a)} :
          SwapSection(a, r, "swap3")

\* lines 352-374
RepeatUsdcForEth ==
    /\ pc = "swap3"
    /\ \E a \in IntInputs : \E r \in {SellToken1(a)} :
          SwapSection(a, r, "swap4")

\* lines 379-393
RepeatEthForUsdc ==
    /\ pc = "swap4"
    /\ \E a \in FloatInputs : \E r \in {SellToken0(a)} :
          SwapSection(a, r, "done")

NoCall == fn = "none" /\ arg_x = 0 /\ arg_a = 0 /\ arg_b = 0 /\ ret = None

InitWith(maxPrice, maxAmount) ==
    /\ pc = "provide"
    /\ err = "none"
    /\ price_low \in 1..maxPrice
    /\ price_cur \in 1..maxPrice
    /\ price_upp \in 1..maxPrice
    /\ price_low < price_cur
    /\ price_cur < price_upp
    /\ amount_eth \in 1..maxAmount
    /\ amount_usdc \in 1..maxAmount
    /\ sqrtp_low = 0 /\ sqrtp_cur = 0 /\ sqrtp_upp = 0
    /\ liq0 = None /\ liq1 = None /\ liq = 0
    /\ amount_in = None /\ amount_req = None
    /\ price_diff = 0 /\ price_next = 0 /\ amount_out = 0
    /\ NoCall

Init == InitWith(MaxPrice, MaxAmount)

Next ==
    \/ ProvideLiquidity
    \/ SwapUsdcForEth
    \/ SwapEthForUsdc
    \/ RepeatUsdcForEth
    \/ RepeatEthForUsdc

Spec == Init /\ [][Next]_vars

\* Liquidity provision alone (lines 246-273), on a wider range of deposits.
InitDeposit == InitWith(MaxDepositPrice, MaxDeposit)

NextDeposit == ProvideLiquidity

SpecDeposit == InitDeposit /\ [][NextDeposit]_vars

(***************************************************************************)
(* Direct calls of the functions, on arguments drawn from bounded sets.    *)
(***************************************************************************)
NoScript ==
    /\ err = "none"
    /\ price_low = 0 /\ price_cur = 0 /\ price_upp = 0
    /\ amount_eth = 0 /\ amount_usdc = 0
    /\ sqrtp_low = 0 /\ sqrtp_cur = 0 /\ sqrtp_upp = 0
    /\ liq0 = None /\ liq1 = None /\ liq = 0
    /\ amount_in = None /\ amount_req = None
    /\ price_diff = 0 /\ price_next = 0 /\ amount_out = 0

Ticks ==
    (min_tick - TickMargin .. min_tick + TickMargin)
        \cup (-TickMargin .. TickMargin)
        \cup (max_tick - TickMargin .. max_tick + TickMargin)

InitFn ==
    /\ NoScript
    /\ fn = "none"
    /\ ret = None
    /\ \/ /\ pc = "call"
          /\ arg_x \in 0..MaxArg
          /\ arg_a \in 0..MaxSqrtP
          /\ arg_b \in 0..MaxSqrtP
       \/ /\ pc = "call_tick"
          /\ arg_x \in Ticks
          /\ arg_a = 0
          /\ arg_b = 0

Return(name, value) ==
    /\ fn' = name
    /\ ret' = value
    /\ pc' = "returned"
    /\ UNCHANGED <<arg_x, arg_a, arg_b>>
    /\ UNCHANGED <<err, price_low, price_cur, price_upp, sqrtp_low,
                   sqrtp_cur, sqrtp_upp, amount_eth, amount_usdc, liq0, liq1,
                   liq, amount_in, price_diff, price_next, amount_out,
                   amount_req>>

CallLiquidity0 ==
    /\ pc = "call"
    /\ Return("liquidity0",
              liquidity0(PyInt(arg_x), PyInt(arg_a), PyInt(arg_b)))

CallLiquidity1 ==
    /\ pc = "call"
    /\ Return("liquidity1",
              liquidity1(PyInt(arg_x), PyInt(arg_a), PyInt(arg_b)))

CallCalcAmount0 ==
    /\ pc = "call"
    /\ Return("calc_amount0",
              calc_amount0(PyInt(arg_x), PyInt(arg_a), PyInt(arg_b)))

CallCalcAmount1 ==
    /\ pc = "call"
    /\ Return("calc_amount1",
              calc_amount1(PyInt(arg_x), PyInt(arg_a), PyInt(arg_b)))

CallTickToSqrtp ==
    /\ pc = "call_tick"
    /\ Return("tick_to_sqrtp", tick_to_sqrtp(arg_x))

NextFn ==
    \/ CallLiquidity0
    \/ CallLiquidity1
    \/ CallCalcAmount0
    \/ CallCalcAmount1
    \/ CallTickToSqrtp

SpecFn == InitFn /\ [][NextFn]_vars

(***************************************************************************)
(* Properties.                                                             *)
(***************************************************************************)
\* The last section to run was a sale of token1 (resp. token0) and it ran to
\* its end: the new price and both amounts were reported.
SoldToken1 == pc \in {"swap2", "swap4"}

SoldToken0 == pc \in {"swap3", "done"}

Swapped == SoldToken1 \/ SoldToken0

Positive(x) == IsNum(x) /\ x.m > 0

\* C1.  Price direction of a swap step: with liquidity > 0, a positive price
\* and a positive input, selling token1 gives price_next strictly greater
\* than sqrtp_cur, and selling token0 gives price_next strictly less.
C1_PriceDirection ==
    /\ SoldToken1 /\ liq > 0 /\ sqrtp_cur > 0 /\ Positive(amount_req)
          => price_next > sqrtp_cur
    /\ SoldToken0 /\ liq > 0 /\ sqrtp_cur > 0 /\ Positive(amount_req)
          => price_next < sqrtp_cur

\* C2 as claimed.  The amount_out a swap step reports, for a positive input
\* and liquidity > 0, is strictly positive.
C2_AmountOutPositive ==
    Swapped /\ liq > 0 /\ Positive(amount_req) => amount_out > 0

\* C2 as amended.  The amount_out a swap step reports, for a positive input
\* and liquidity > 0, is never negative (it is 0 when the price moves by less
\* than one unit of the output asset is worth).
C2_AmountOutNonNegative ==
    Swapped /\ liq > 0 /\ Positive(amount_req) => amount_out >= 0

\* A sale of token1 that moved the price up and reported no output.
C2_Witness ==
    /\ SoldToken1
    /\ liq > 0
    /\ Positive(amount_req)
    /\ price_next > sqrtp_cur
    /\ amount_out = 0

Returned(name) == pc = "returned" /\ fn = name

C4_DepositNeverOverRequires ==
    pc = "swap1" /\ sqrtp_low < sqrtp_cur /\ sqrtp_cur < sqrtp_upp
    => /\ ~Less(PyInt(amount_eth),
                calc_amount0(PyInt(liq), PyInt(sqrtp_cur), PyInt(sqrtp_upp)))
       /\ ~Less(PyInt(amount_usdc),
                calc_amount1(PyInt(liq), PyInt(sqrtp_low), PyInt(sqrtp_cur)))

\* The function fn applied to (x, pa, pb).
Apply(name, x, pa, pb) ==
    IF name = "liquidity0" THEN liquidity0(x, pa, pb)
    ELSE IF name = "liquidity1" THEN liquidity1(x, pa, pb)
    ELSE IF name = "calc_amount0" THEN calc_amount0(x, pa, pb)
    ELSE calc_amount1(x, pa, pb)

\* C5.  Range-order invariance: for each of liquidity0, liquidity1,
\* calc_amount0 and calc_amount1, and all pa # pb, f(x, pa, pb) is what
\* f(x, pb, pa) is (the same value, or the same exception).
C5_RangeOrderInvariance ==
    /\ pc = "returned"
    /\ fn \in {"liquidity0", "liquidity1", "calc_amount0", "calc_amount1"}
    /\ arg_a # arg_b
    => ret = Apply(fn, PyInt(arg_x), PyInt(arg_b), PyInt(arg_a))

\* calc_amount1 was called with the upper bound first and returned a
\* positive amount.
C5_Witness ==
    /\ Returned("calc_amount1")
    /\ arg_a > arg_b
    /\ arg_b > 0
    /\ Positive(ret)

\* C6.  Liquidity/amount inverse law: for amt >= 0 and positive pa # pb,
\* calc_amount0(liquidity0(amt, pa, pb), pa, pb) <= amt.
C6_InverseLaw ==
    Returned("liquidity0") /\ arg_a # arg_b /\ arg_a > 0 /\ arg_b > 0
    => ~Less(PyInt(arg_x), calc_amount0(ret, PyInt(arg_a), PyInt(arg_b)))

\* C7.  A swap step stays in range or fails: a step that reports amounts
\* has sqrtp_low <= price_next <= sqrtp_upp, and a step whose price_next
\* lies outside ends with RangeExceeded.
C7_StaysInRangeOrFails ==
    /\ Swapped => sqrtp_low <= price_next /\ price_next <= sqrtp_upp
    /\ pc = "crashed" /\ amount_req # None /\ amount_in # amount_req
          /\ (price_next < sqrtp_low \/ price_next > sqrtp_upp)
          => err = "RangeExceeded"

\* C8.  Tick bounds are enforced: tick_to_sqrtp(t) raises for every
\* t < min_tick and every t > max_tick.
C8_TickBoundsEnforced ==
    Returned("tick_to_sqrtp") /\ (arg_x < min_tick \/ arg_x > max_tick)
    => IsError(ret)

\* C9.  Liquidity is held fixed by swapping: once provided, liq is the value
\* computed at deposit time, and a swap section leaves liq, liq0, liq1, the
\* three sqrt prices and the deposits as they were.
C9_LiquidityHeldFixed ==
    /\ [](pc # "provide" => liq = Provision.liq)
    /\ [][pc # "provide" =>
             UNCHANGED <<liq, liq0, liq1, sqrtp_low, sqrtp_cur, sqrtp_upp,
                         amount_eth, amount_usdc, price_low, price_cur,
                         price_upp>>]_vars

\* All four swap sections ran, the last two steps moved the price, and the
\* liquidity is positive.
C9_Witness ==
    /\ pc = "done"
    /\ liq > 0
    /\ price_diff > 0
    /\ price_next < sqrtp_cur
    /\ amount_out > 0

\* C10.  Exact-input bound: the amount_in a swap step reports (re-derived
\* from the price move) never exceeds the input it started from.
C10_ExactInputBound ==
    Swapped /\ liq > 0 /\ Positive(amount_req) => ~Less(amount_req, amount_in)

====
